---------------------------- MODULE Spec2Model ----------------------------
(***************************************************************************)
(* A model of src/utils.py: the f0 normalisation / interpolation helpers   *)
(* (norm_f0, denorm_f0, interp_f0, interp_f0_spline), the mel filterbank   *)
(* (get_mel_fn) and the adaptive FFT size (get_n_fft).                     *)
(*                                                                         *)
(* Numbers.  The code computes in floating point; the model computes in    *)
(* exact arithmetic over the values IEEE arithmetic distinguishes in kind: *)
(*   [k |-> "fin",  n, d]   the rational n/d (d > 0, lowest terms)         *)
(*   [k |-> "ninf"], [k |-> "pinf"], [k |-> "nan"]   -inf, +inf, NaN       *)
(*   [k |-> "pow2", n, d]   the irrational 2^(n/d), d > 1                  *)
(*   [k |-> "log2", n, d]   the irrational log2(n/d), n/d no power of two  *)
(* Rounding error is not modelled: an equality below is the spec's         *)
(* "within floating-point tolerance".                                      *)
(*                                                                         *)
(* Arrays.  numpy arrays are objects on a heap (a sequence of arrays; a    *)
(* reference is an index, None is 0).  `f0 = np.log2(...)` allocates and   *)
(* rebinds the local name, `f0[uv] = x` writes into the object the name    *)
(* refers to; the caller's arrays are the first four objects.              *)
(***************************************************************************)
EXTENDS Integers, Sequences, FiniteSets, TLC

VARIABLES f0, uv, pitch_padding, lf0, args, last, ret

vars == <<f0, uv, pitch_padding, lf0, args, last, ret>>

---------------------------------------------------------------------------
(* Bounds of the model *)

\* longest contour / mask, in frames
MaxLen == 4
\* contour values are 0 and 2^0 .. 2^MaxExp Hz
MaxExp == 1
\* most mel bands asked of get_mel_fn
MaxMels == 3
\* most frames handed to get_n_fft
MaxFrames == 2

---------------------------------------------------------------------------
(* Exact arithmetic *)

Abs(x) == IF x < 0 THEN -x ELSE x

RECURSIVE GCD(_, _)
GCD(a, b) == IF b = 0 THEN a ELSE GCD(b, a % b)

Fin(n, d) ==
    LET s == IF d < 0 THEN -1 ELSE 1
        g == GCD(Abs(n), Abs(d))
    IN  [k |-> "fin", n |-> (s * n) \div g, d |-> (s * d) \div g]

I(n) == [k |-> "fin", n |-> n, d |-> 1]
Zero == I(0)
NegInf == [k |-> "ninf", n |-> 0, d |-> 1]
PosInf == [k |-> "pinf", n |-> 0, d |-> 1]
NaN == [k |-> "nan", n |-> 0, d |-> 1]

IsFinite(a) == a.k = "fin"

\* -1, 0, 1 for a rational or an infinity
Sign(a) ==
    CASE a.k = "ninf" -> -1
      [] a.k = "pinf" -> 1
      [] OTHER -> IF a.n < 0 THEN -1 ELSE IF a.n > 0 THEN 1 ELSE 0

Inf(s) == IF s < 0 THEN NegInf ELSE PosInf

XNeg(a) ==
    CASE a.k = "fin" -> Fin(-a.n, a.d)
      [] a.k = "ninf" -> PosInf
      [] a.k = "pinf" -> NegInf
      [] OTHER -> NaN

XAdd(a, b) ==
    CASE a.k = "nan" \/ b.k = "nan" -> NaN
      [] a.k = "fin" /\ b.k = "fin" -> Fin(a.n * b.d + b.n * a.d, a.d * b.d)
      [] a.k = "fin" -> b
      [] b.k = "fin" -> a
      [] OTHER -> IF a.k = b.k THEN a ELSE NaN

XSub(a, b) == XAdd(a, XNeg(b))

XMul(a, b) ==
    CASE a.k = "nan" \/ b.k = "nan" -> NaN
      [] a.k = "fin" /\ b.k = "fin" -> Fin(a.n * b.n, a.d * b.d)
      [] OTHER -> IF Sign(a) * Sign(b) = 0 THEN NaN ELSE Inf(Sign(a) * Sign(b))

\* IEEE division; a zero divisor is +0.0 (the code only ever divides by a
\* difference x - x)
XDiv(a, b) ==
    CASE a.k = "nan" \/ b.k = "nan" -> NaN
      [] a.k = "fin" /\ b.k = "fin" ->
            IF b.n # 0 THEN Fin(a.n * b.d, a.d * b.n)
            ELSE IF a.n = 0 THEN NaN ELSE Inf(Sign(a))
      [] a.k = "fin" -> Zero
      [] b.k = "fin" -> Inf(Sign(a) * (IF Sign(b) < 0 THEN -1 ELSE 1))
      [] OTHER -> NaN

\* a < b; false when either is NaN
XLess(a, b) ==
    CASE a.k = "nan" \/ b.k = "nan" -> FALSE
      [] a.k = "fin" /\ b.k = "fin" -> a.n * b.d < b.n * a.d
      [] a.k = "ninf" -> b.k # "ninf"
      [] a.k = "pinf" -> FALSE
      [] OTHER -> b.k = "pinf"

XLeq(a, b) == a.k # "nan" /\ b.k # "nan" /\ ~XLess(b, a)

RECURSIVE IPow2(_)
IPow2(e) == IF e = 0 THEN 1 ELSE 2 * IPow2(e - 1)

RECURSIVE IsPow2(_)
IsPow2(x) == IF x < 1 THEN FALSE ELSE IF x = 1 THEN TRUE
             ELSE x % 2 = 0 /\ IsPow2(x \div 2)

\* floor(log2(x)) for x >= 1
RECURSIVE ILog2(_)
ILog2(x) == IF x <= 1 THEN 0 ELSE 1 + ILog2(x \div 2)

\* np.log2 of one value
Log2(a) ==
    CASE a.k = "nan" \/ a.k = "ninf" -> NaN
      [] a.k = "pinf" -> PosInf
      [] a.k = "pow2" -> Fin(a.n, a.d)
      [] a.k = "fin" ->
            IF a.n = 0 THEN NegInf
            ELSE IF a.n < 0 THEN NaN
            ELSE IF a.d = 1 /\ IsPow2(a.n) THEN I(ILog2(a.n))
            ELSE IF a.n = 1 /\ IsPow2(a.d) THEN I(-ILog2(a.d))
            ELSE [k |-> "log2", n |-> a.n, d |-> a.d]
      [] OTHER -> NaN

\* 2 ** a for one value
Pow2(a) ==
    CASE a.k = "nan" -> NaN
      [] a.k = "ninf" -> Zero
      [] a.k = "pinf" -> PosInf
      [] a.k = "log2" -> Fin(a.n, a.d)
      [] a.k = "fin" ->
            IF a.d # 1 THEN [k |-> "pow2", n |-> a.n, d |-> a.d]
            ELSE IF a.n >= 0 THEN I(IPow2(a.n))
            ELSE Fin(1, IPow2(-a.n))
      [] OTHER -> NaN

\* order of two non-negative Hz values, decided on their logarithms
HzLess(a, b) == XLess(Log2(a), Log2(b))
HzLeq(a, b) == XLeq(Log2(a), Log2(b))

---------------------------------------------------------------------------
(* numpy arrays on a heap.  A frame holds a call's heap and the objects    *)
(* its local names f0 and uv are bound to; each statement of the code maps *)
(* a frame to a frame, and a raised exception is the frame's status.       *)

None == 0

Alloc(h, arr) == Append(h, arr)

Frame(h, pf0, puv) ==
    [st |-> "ok", h |-> h, f0 |-> pf0, uv |-> puv, f0max |-> Zero]

Raise(fr, e) == [fr EXCEPT !.st = e]

AnyTrue(m) == \E i \in 1..Len(m) : m[i]
AllTrue(m) == \A i \in 1..Len(m) : m[i]

\* f0 == 0
EqZero(a) == [i \in 1..Len(a) |-> a[i] = Zero]

\* numpy broadcasting of two 1-d shapes
Broadcastable(la, lb) == la = lb \/ la = 1 \/ lb = 1
BroadcastLen(la, lb) == IF la = lb THEN la ELSE IF la = 1 THEN lb ELSE la

\* mutant of AddMask: adds 1 to every frame, masked or not
AddMask_AlwaysOne(a, m) ==
    [i \in 1..BroadcastLen(Len(a), Len(m)) |->
        XAdd(a[IF Len(a) = 1 THEN 1 ELSE i], I(1))]

\* f0 + uv: booleans add as 0 / 1
AddMask(a, m) ==
    [i \in 1..BroadcastLen(Len(a), Len(m)) |->
        XAdd(a[IF Len(a) = 1 THEN 1 ELSE i],
             IF m[IF Len(m) = 1 THEN 1 ELSE i] THEN I(1) ELSE Zero)]

Log2Arr(a) == [i \in 1..Len(a) |-> Log2(a[i])]
Pow2Arr(a) == [i \in 1..Len(a) |-> Pow2(a[i])]

\* a[m] = v, in place; m is a boolean index of a's length
SetWhere(h, r, m, v) ==
    [h EXCEPT ![r] = [i \in 1..Len(@) |-> IF h[m][i] THEN v ELSE @[i]]]

\* np.where(m)[0] (b = TRUE) and np.where(~m)[0] (b = FALSE), 1-based
RECURSIVE Where(_, _, _)
Where(m, b, i) ==
    IF i > Len(m) THEN <<>>
    ELSE (IF m[i] = b THEN <<i>> ELSE <<>>) \o Where(m, b, i + 1)

\* a[idx]
Take(a, idx) == [j \in 1..Len(idx) |-> a[idx[j]]]

---------------------------------------------------------------------------
(* norm_f0 / denorm_f0 *)

\* if uv is None: uv = f0 == 0
DeriveUv(fr) ==
    IF fr.st # "ok" \/ fr.uv # None THEN fr
    ELSE [fr EXCEPT !.h = Alloc(@, EqZero(@[fr.f0])), !.uv = Len(fr.h) + 1]

\* mutant of LogOfSum: np.log2(f0 + uv, out=f0), writing into the argument
LogOfSum_InPlace(fr) ==
    IF fr.st # "ok" THEN fr
    ELSE IF Len(fr.h[fr.f0]) # Len(fr.h[fr.uv]) THEN Raise(fr, "ValueError")
    ELSE [fr EXCEPT !.h[fr.f0] = Log2Arr(AddMask(@, fr.h[fr.uv]))]

\* f0 = np.log2(f0 + uv)
LogOfSum(fr) ==
    IF fr.st # "ok" THEN fr
    ELSE IF ~Broadcastable(Len(fr.h[fr.f0]), Len(fr.h[fr.uv]))
    THEN Raise(fr, "ValueError")
    ELSE [fr EXCEPT !.h = Alloc(@, Log2Arr(AddMask(@[fr.f0], @[fr.uv]))),
                    !.f0 = Len(fr.h) + 1]

\* mutant of FillNegInf: the overwrite with -inf is left out
FillNegInf_Skipped(fr) ==
    IF fr.st # "ok" THEN fr
    ELSE IF Len(fr.h[fr.uv]) # Len(fr.h[fr.f0]) THEN Raise(fr, "IndexError")
    ELSE fr

\* f0[uv] = -np.inf
FillNegInf(fr) ==
    IF fr.st # "ok" THEN fr
    ELSE IF Len(fr.h[fr.uv]) # Len(fr.h[fr.f0]) THEN Raise(fr, "IndexError")
    ELSE [fr EXCEPT !.h = SetWhere(@, fr.f0, fr.uv, NegInf)]

norm_f0(fr) == FillNegInf(LogOfSum(DeriveUv(fr)))

\* f0 = 2 ** f0
PowerOfTwo(fr) ==
    IF fr.st # "ok" THEN fr
    ELSE [fr EXCEPT !.h = Alloc(@, Pow2Arr(@[fr.f0])), !.f0 = Len(fr.h) + 1]

\* if m is not None: f0[m] = 0
ZeroWhere(fr, m) ==
    IF fr.st # "ok" \/ m = None THEN fr
    ELSE IF Len(fr.h[m]) # Len(fr.h[fr.f0]) THEN Raise(fr, "IndexError")
    ELSE [fr EXCEPT !.h = SetWhere(@, fr.f0, m, Zero)]

denorm_f0(fr, puv, ppad) == ZeroWhere(ZeroWhere(PowerOfTwo(fr), puv), ppad)

---------------------------------------------------------------------------
(* np.interp, scipy CubicSpline, np.max, np.clip *)

\* the segment of np.interp: knots (x0, y0), (x1, y1), x0 < x < x1
Segment(x, x0, y0, x1, y1, slope) ==
    IF XAdd(XMul(slope, I(x - x0)), y0).k # "nan"
    THEN XAdd(XMul(slope, I(x - x0)), y0)
    ELSE IF XAdd(XMul(slope, I(x - x1)), y1).k # "nan" \/ y0 # y1
    THEN XAdd(XMul(slope, I(x - x1)), y1)
    ELSE y0

\* the knot at or left of x
LeftKnot(x, xp) ==
    CHOOSE j \in 1..Len(xp) : xp[j] <= x /\ (j = Len(xp) \/ x < xp[j + 1])

\* mutant of InterpAt: the slope is not divided by the distance of the knots
InterpAt_UnscaledSlope(x, xp, fp, j) ==
    IF j = Len(xp) \/ xp[j] = x THEN fp[j]
    ELSE Segment(x, xp[j], fp[j], xp[j + 1], fp[j + 1],
                 XSub(fp[j + 1], fp[j]))

InterpAt(x, xp, fp, j) ==
    IF j = Len(xp) \/ xp[j] = x THEN fp[j]
    ELSE Segment(x, xp[j], fp[j], xp[j + 1], fp[j + 1],
                 XDiv(XSub(fp[j + 1], fp[j]), I(xp[j + 1] - xp[j])))

\* np.interp at one point x for knots xp (ascending) with values fp
np_interp(x, xp, fp) ==
    IF x < xp[1] THEN fp[1]
    ELSE IF x > xp[Len(xp)] THEN fp[Len(xp)]
    ELSE IF Len(xp) = 1 THEN fp[1]
    ELSE InterpAt(x, xp, fp, LeftKnot(x, xp))

\* prod over j # i of (x - xp[j]) / (xp[i] - xp[j])
RECURSIVE Basis(_, _, _, _)
Basis(x, xp, i, j) ==
    IF j > Len(xp) THEN I(1)
    ELSE IF j = i THEN Basis(x, xp, i, j + 1)
    ELSE XMul(Fin(x - xp[j], xp[i] - xp[j]), Basis(x, xp, i, j + 1))

RECURSIVE PolyThrough(_, _, _, _)
PolyThrough(x, xp, fp, i) ==
    IF i > Len(xp) THEN Zero
    ELSE XAdd(XMul(fp[i], Basis(x, xp, i, 1)), PolyThrough(x, xp, fp, i + 1))

\* the most knots for which the not-a-knot spline is a single polynomial
NotAKnotPoly == 4

\* CubicSpline(xp, fp)(x) with scipy's defaults (bc_type='not-a-knot',
\* extrapolate=True): the line through 2 knots, the parabola through 3, the
\* cubic through 4
CubicSpline(x, xp, fp) == PolyThrough(x, xp, fp, 1)

\* np.max of a non-empty array, from position i on
RECURSIVE np_max(_, _)
np_max(a, i) ==
    IF i = Len(a) THEN a[i]
    ELSE IF XLess(a[i], np_max(a, i + 1)) THEN np_max(a, i + 1) ELSE a[i]

\* np.clip(x, lo, hi) = minimum(maximum(x, lo), hi) on Hz values
Minimum(y, hi) == IF HzLess(hi, y) THEN hi ELSE y
\* mutant of np_clip: only the lower limit is applied
np_clip_NoUpper(x, lo, hi) ==
    IF x.k = "nan" THEN NaN
    ELSE IF HzLess(x, lo) THEN lo ELSE x

np_clip(x, lo, hi) ==
    IF x.k = "nan" THEN NaN
    ELSE Minimum(IF HzLess(x, lo) THEN lo ELSE x, hi)

---------------------------------------------------------------------------
(* interp_f0 / interp_f0_spline *)

\* if uv.any() and not uv.all()
Fits(m) == AnyTrue(m) /\ ~AllTrue(m)

InterpArr(a, m, xp) ==
    [i \in 1..Len(a) |-> IF m[i] THEN np_interp(i, xp, Take(a, xp)) ELSE a[i]]

\* f0[uv] = np.interp(np.where(uv)[0], np.where(~uv)[0], f0[~uv])
InterpFill(fr) ==
    IF fr.st # "ok" \/ ~Fits(fr.h[fr.uv]) THEN fr
    ELSE [fr EXCEPT !.h[fr.f0] =
              InterpArr(@, fr.h[fr.uv], Where(fr.h[fr.uv], FALSE, 1))]

interp_f0(fr) == denorm_f0(InterpFill(norm_f0(DeriveUv(fr))), None, None)

\* f0max = np.max(f0)
MaxOf(fr) ==
    IF fr.st # "ok" THEN fr
    ELSE IF Len(fr.h[fr.f0]) = 0 THEN Raise(fr, "ValueError")
    ELSE [fr EXCEPT !.f0max = np_max(fr.h[fr.f0], 1)]

SplineArr(a, m, xp) ==
    [i \in 1..Len(a) |-> IF m[i] THEN CubicSpline(i, xp, Take(a, xp)) ELSE a[i]]

\* CubicSpline refuses fewer than two knots and non-finite values
SplineRefuses(a, xp) ==
    Len(xp) < 2 \/ \E j \in 1..Len(xp) : ~IsFinite(a[xp[j]])

\* spline = CubicSpline(np.where(~uv)[0], f0[~uv]); f0[uv] = spline(np.where(uv)[0])
SplineWith(fr, xp) ==
    IF SplineRefuses(fr.h[fr.f0], xp) THEN Raise(fr, "ValueError")
    ELSE IF Len(xp) > NotAKnotPoly THEN Raise(fr, "unmodelled")
    ELSE [fr EXCEPT !.h[fr.f0] = SplineArr(@, fr.h[fr.uv], xp)]

SplineFill(fr) ==
    IF fr.st # "ok" \/ ~Fits(fr.h[fr.uv]) THEN fr
    ELSE SplineWith(fr, Where(fr.h[fr.uv], FALSE, 1))

\* np.clip(f0, 0, f0max)
Clip(fr) ==
    IF fr.st # "ok" THEN fr
    ELSE [fr EXCEPT !.h = Alloc(@, [i \in 1..Len(@[fr.f0]) |->
                                      np_clip(@[fr.f0][i], Zero, fr.f0max)]),
                    !.f0 = Len(fr.h) + 1]

interp_f0_spline(fr) ==
    Clip(denorm_f0(SplineFill(norm_f0(MaxOf(DeriveUv(fr)))), None, None))

---------------------------------------------------------------------------
(* The caller: its arrays, and one action per call *)

NoneV == <<>>
Some(a) == <<a>>
OrEmpty(o) == IF o = NoneV THEN <<>> ELSE o[1]
Ref(o, r) == IF o = NoneV THEN None ELSE r

F0Vals == {0} \cup {IPow2(e) : e \in 0..MaxExp}

SeqsOfLen(S, n) == [1..n -> S]
SeqsUpTo(S, n) == UNION {SeqsOfLen(S, l) : l \in 0..n}

Contours == {[i \in 1..Len(c) |-> I(c[i])] : c \in SeqsUpTo(F0Vals, MaxLen)}
Masks == SeqsUpTo(BOOLEAN, MaxLen)

\* pitch_padding flags the k trailing frames of an n-frame contour
Padding(n, k) == [i \in 1..n |-> i > n - k]

NoRet == [st |-> "none", f0 |-> <<>>, uv |-> <<>>, fresh |-> TRUE]

\* the caller's arrays as heap objects 1..4
CallerHeap == <<f0, OrEmpty(uv), OrEmpty(pitch_padding), OrEmpty(lf0)>>

Keep(o, h, r) == IF o = NoneV THEN NoneV ELSE Some(h[r])

\* what the call hands back: the contour, the mask where one is returned, and
\* whether the contour is an object of the call's own (none of the caller's)
Returned(fr, withUv) ==
    IF fr.st = "ok"
    THEN [st |-> "ok", f0 |-> fr.h[fr.f0],
          uv |-> IF withUv THEN fr.h[fr.uv] ELSE <<>>,
          fresh |-> fr.f0 > Len(CallerHeap)]
    ELSE [st |-> fr.st, f0 |-> <<>>, uv |-> <<>>, fresh |-> TRUE]

\* the caller's arrays as the call left them
AfterCall(fr) ==
    /\ f0' = fr.h[1]
    /\ uv' = Keep(uv, fr.h, 2)
    /\ pitch_padding' = Keep(pitch_padding, fr.h, 3)

InitF0 ==
    /\ f0 \in Contours
    /\ uv \in {NoneV} \cup {Some(m) : m \in Masks}
    /\ pitch_padding = NoneV
    /\ lf0 = NoneV
    /\ args = <<>>
    /\ last = "init"
    /\ ret = NoRet

NormDone(fr) ==
    /\ AfterCall(fr)
    /\ lf0' = IF fr.st = "ok" THEN Some(fr.h[fr.f0]) ELSE Keep(lf0, fr.h, 4)
    /\ ret' = Returned(fr, FALSE)

\* lf0 = norm_f0(f0, uv)
NormF0 ==
    /\ pitch_padding = NoneV
    /\ NormDone(norm_f0(Frame(CallerHeap, 1, Ref(uv, 2))))
    /\ last' = "norm_f0"
    /\ UNCHANGED args

\* the caller allocates the padding mask for the array norm_f0 returned
SetPadding ==
    /\ last = "norm_f0"
    /\ ret.st = "ok"
    /\ \E k \in 0..Len(OrEmpty(lf0)) :
          pitch_padding' = Some(Padding(Len(OrEmpty(lf0)), k))
    /\ last' = "set_padding"
    /\ UNCHANGED <<f0, uv, lf0, args, ret>>

CallDone(fr, withUv) ==
    /\ AfterCall(fr)
    /\ lf0' = Keep(lf0, fr.h, 4)
    /\ ret' = Returned(fr, withUv)

\* denorm_f0(lf0, uv, pitch_padding)
DenormF0 ==
    /\ lf0 # NoneV
    /\ last \in {"norm_f0", "set_padding"}
    /\ CallDone(denorm_f0(Frame(CallerHeap, 4, None), Ref(uv, 2),
                          Ref(pitch_padding, 3)), FALSE)
    /\ last' = "denorm_f0"
    /\ UNCHANGED args

\* interp_f0(f0, uv)
InterpF0 ==
    /\ pitch_padding = NoneV
    /\ CallDone(interp_f0(Frame(CallerHeap, 1, Ref(uv, 2))), TRUE)
    /\ last' = "interp_f0"
    /\ UNCHANGED args

SplineDone(fr) == fr.st # "unmodelled" /\ CallDone(fr, TRUE)

\* interp_f0_spline(f0, uv)
InterpF0Spline ==
    /\ pitch_padding = NoneV
    /\ SplineDone(interp_f0_spline(Frame(CallerHeap, 1, Ref(uv, 2))))
    /\ last' = "interp_f0_spline"
    /\ UNCHANGED args

NextF0 == NormF0 \/ SetPadding \/ DenormF0 \/ InterpF0 \/ InterpF0Spline

Spec == InitF0 /\ [][NextF0]_vars

---------------------------------------------------------------------------
(* get_mel_fn.  The model follows the Slaney branch (htk = False) below    *)
(* min_log_hz, where the mel scale is linear and the arithmetic exact; the *)
(* frequencies it draws stay under min_log_hz.                             *)

\* f_sp = 200.0 / 3
f_sp == Fin(200, 3)
min_log_hz == 1000

\* torch.min / torch.max of two values: NaN propagates
XMin(a, b) == IF a.k = "nan" \/ b.k = "nan" THEN NaN
              ELSE IF XLess(b, a) THEN b ELSE a
XMax(a, b) == IF a.k = "nan" \/ b.k = "nan" THEN NaN
              ELSE IF XLess(a, b) THEN b ELSE a

\* min_mel = (fmin) / f_sp, for fmin < min_log_hz
HzToMel(f) == XDiv(I(f), f_sp)

\* mel_f[~log_t] = f_sp * mels[~log_t]
MelToHz(m) == XMul(f_sp, m)

\* torch.linspace(a, b, steps), steps >= 0
linspace(a, b, steps) ==
    [i \in 1..steps |->
        IF steps = 1 THEN a
        ELSE XAdd(a, XMul(I(i - 1), XDiv(XSub(b, a), I(steps - 1))))]

MelToHzArr(mels) == [i \in 1..Len(mels) |-> MelToHz(mels[i])]

\* the n_mels + 2 band edges, in Hz
mel_f(fmin, fmax, n_mels) ==
    MelToHzArr(linspace(HzToMel(fmin), HzToMel(fmax), n_mels + 2))

\* fftfreqs = (sr / n_fft) * torch.arange(0, N)
fftfreqs(sr, n_fft, N) ==
    [k \in 1..N |-> XMul(XDiv(I(sr), I(n_fft)), I(k - 1))]

\* torch.diff
fdiff(mf) == [i \in 1..(Len(mf) - 1) |-> XSub(mf[i + 1], mf[i])]

\* lower = -ramps[:-2] / fdiff[:-1], ramps = mel_f - fftfreqs
lower(mf, i, bin) == XDiv(XNeg(XSub(mf[i], bin)), fdiff(mf)[i])

\* upper = ramps[2:] / fdiff[1:]
upper(mf, i, bin) == XDiv(XSub(mf[i + 2], bin), fdiff(mf)[i + 1])

\* enorm = 2.0 / (mel_f[2 : n_mels + 2] - mel_f[:n_mels])
enorm(mf, i) == XDiv(I(2), XSub(mf[i + 2], mf[i]))

\* mutant of Triangle: the floor at 0 is left out
Triangle_NoFloor(lo, up) == XMin(lo, up)

\* torch.max(torch.tensor(0.0), torch.min(lower, upper))
Triangle(lo, up) == XMax(Zero, XMin(lo, up))

\* weights, after weights *= enorm.unsqueeze(1)
Weights(mf, bins, n_mels) ==
    [i \in 1..n_mels |-> [k \in 1..Len(bins) |->
        XMul(Triangle(lower(mf, i, bins[k]), upper(mf, i, bins[k])),
             enorm(mf, i))]]

\* N = 1 + n_fft // 2
NBins(n_fft) == 1 + n_fft \div 2

MelError(e) == [st |-> e, w |-> <<>>, rows |-> 0, cols |-> 0]

get_mel_fn(a) ==
    IF a.n_mels + 2 < 0 THEN MelError("RuntimeError")
    ELSE IF a.n_mels < 0 \/ NBins(a.n_fft) < 0 THEN MelError("RuntimeError")
    ELSE IF a.n_fft = 0 THEN MelError("ZeroDivisionError")
    ELSE [st |-> "ok",
          w |-> Weights(mel_f(a.fmin, a.fmax, a.n_mels),
                        fftfreqs(a.sr, a.n_fft, NBins(a.n_fft)), a.n_mels),
          rows |-> a.n_mels, cols |-> NBins(a.n_fft)]

MelHz == {f \in {50, 90, 150, 200, 350} : f < min_log_hz}

MelArgs ==
    [sr : {400, 800}, n_fft : {-2, 0, 4, 8}, n_mels : -1..MaxMels,
     fmin : MelHz, fmax : MelHz]

InitMel ==
    /\ args \in MelArgs
    /\ f0 = <<>> /\ uv = NoneV /\ pitch_padding = NoneV /\ lf0 = NoneV
    /\ last = "init"
    /\ ret = NoRet

\* get_mel_fn(sr, n_fft, n_mels, fmin, fmax, htk=False)
GetMelFn ==
    /\ last = "init"
    /\ ret' = get_mel_fn(args)
    /\ last' = "get_mel_fn"
    /\ UNCHANGED <<f0, uv, pitch_padding, lf0, args>>

SpecMel == InitMel /\ [][GetMelFn]_vars

---------------------------------------------------------------------------
(* get_n_fft *)

\* f0 = f0[f0 > 20]
RECURSIVE Above(_, _, _)
Above(a, t, i) ==
    IF i > Len(a) THEN <<>>
    ELSE (IF a[i] > t THEN <<a[i]>> ELSE <<>>) \o Above(a, t, i + 1)

\* f0.min() of a non-empty tensor, from position i on
RECURSIVE tensor_min(_, _)
tensor_min(a, i) ==
    IF i = Len(a) THEN a[i]
    ELSE IF tensor_min(a, i + 1) < a[i] THEN tensor_min(a, i + 1) ELSE a[i]

\* if f0_min > 1000: f0_min = torch.tensor(1000)
Capped(m) == IF m > 1000 THEN 1000 ELSE m

\* torch.round of a non-negative rational: halves go to the even neighbour
Round(q) ==
    IF 2 * (q.n - (q.n \div q.d) * q.d) > q.d THEN (q.n \div q.d) + 1
    ELSE IF 2 * (q.n - (q.n \div q.d) * q.d) < q.d THEN q.n \div q.d
    ELSE IF (q.n \div q.d) % 2 = 0 THEN q.n \div q.d
    ELSE (q.n \div q.d) + 1

\* max_winsize = torch.round(sr / f0_min * relative_winsize / 2) * 2
max_winsize(sr, f0_min, relative_winsize) ==
    Round(XDiv(XMul(XDiv(I(sr), I(f0_min)), I(relative_winsize)), I(2))) * 2

\* torch.ceil of a log-domain value
Ceil(x) ==
    IF x.k = "log2" THEN I(ILog2(x.n \div x.d) + 1)
    ELSE IF x.k = "fin" THEN I(-((-x.n) \div x.d))
    ELSE x

\* n_fft = 2 ** torch.ceil(torch.log2(max_winsize)), then .int()
n_fft_of(w) == Pow2(Ceil(Log2(I(w)))).n

NFftResult(m, sr, relative_winsize) ==
    [st |-> "ok", n_fft |-> n_fft_of(max_winsize(sr, m, relative_winsize)),
     f0_min |-> m]

get_n_fft(a) ==
    IF Len(Above(a.f0, 20, 1)) = 0
    THEN [st |-> "RuntimeError", n_fft |-> 0, f0_min |-> 0]
    ELSE NFftResult(Capped(tensor_min(Above(a.f0, 20, 1), 1)), a.sr,
                    a.relative_winsize)

NFftArgs ==
    [f0 : SeqsUpTo({0, 15, 20, 21, 441, 1000, 2000}, MaxFrames),
     sr : {250, 1000, 16000, 44100},
     relative_winsize : {1, 4}]

InitNFft ==
    /\ args \in NFftArgs
    /\ f0 = <<>> /\ uv = NoneV /\ pitch_padding = NoneV /\ lf0 = NoneV
    /\ last = "init"
    /\ ret = NoRet

\* get_n_fft(f0, sr, relative_winsize)
GetNFft ==
    /\ last = "init"
    /\ ret' = get_n_fft(args)
    /\ last' = "get_n_fft"
    /\ UNCHANGED <<f0, uv, pitch_padding, lf0, args>>

SpecNFft == InitNFft /\ [][GetNFft]_vars

---------------------------------------------------------------------------
(* Properties of the f0 helpers *)

\* the mask a call works with: the one supplied, or f0 == 0
MaskUsed == IF uv = NoneV THEN EqZero(f0) ELSE uv[1]

SameLength == uv = NoneV \/ Len(uv[1]) = Len(f0)

\* the zeros of c are exactly the positions a..b, strictly inside c
SingleInnerRun(c, a, b) ==
    /\ 1 < a /\ a <= b /\ b < Len(c)
    /\ \A i \in 1..Len(c) : (c[i] = Zero) <=> (a <= i /\ i <= b)

\* x lies strictly between l and r, whichever is larger
StrictlyBetween(x, l, r) ==
    \/ HzLess(l, x) /\ HzLess(x, r)
    \/ HzLess(r, x) /\ HzLess(x, l)

\* the filled run a..b of out goes from l to r: constant when l = r, else
\* strictly monotone and strictly between the two
FilledFrom(out, a, b, l, r) ==
    IF l = r THEN \A i \in a..b : out[i] = l
    ELSE /\ \A i \in a..b : StrictlyBetween(out[i], l, r)
         /\ \A i \in a..(b - 1) :
               IF HzLess(l, r) THEN HzLess(out[i], out[i + 1])
               ELSE HzLess(out[i + 1], out[i])

\* C1: interp_f0 with mask=None on a contour whose zeros form one run
\* strictly between two voiced frames L and R leaves every voiced frame as
\* it was and fills the run monotonically from L to R, within [min, max] of
\* the two and strictly between them when L # R.
C1_LinearFillBetween ==
    (last = "interp_f0" /\ uv = NoneV) =>
        \A a, b \in 1..Len(f0) :
            SingleInnerRun(f0, a, b) =>
                /\ ret.st = "ok"
                /\ Len(ret.f0) = Len(f0)
                /\ \A i \in 1..Len(f0) : (i < a \/ i > b) => ret.f0[i] = f0[i]
                /\ FilledFrom(ret.f0, a, b, f0[a - 1], f0[b + 1])

\* a run of two or more unvoiced frames between different pitches was filled
C1_Witness ==
    /\ last = "interp_f0" /\ uv = NoneV /\ ret.st = "ok"
    /\ \E a, b \in 1..Len(f0) :
          /\ SingleInnerRun(f0, a, b) /\ a < b
          /\ f0[a - 1] # f0[b + 1]
          /\ ret.f0[a] # ret.f0[b]

\* m is the largest value of the non-empty array c
IsMaxOf(m, c) ==
    /\ \E i \in 1..Len(c) : c[i] = m
    /\ \A i \in 1..Len(c) : XLeq(c[i], m)

\* C2: every entry of the contour interp_f0_spline returns lies in
\* [0, max(contour)], and the mask returned is the one supplied (contour == 0
\* when none was).
C2_SplineClipped ==
    (last = "interp_f0_spline" /\ SameLength /\ ret.st = "ok") =>
        /\ \A m \in {f0[i] : i \in 1..Len(f0)} :
              IsMaxOf(m, f0) =>
                  \A i \in 1..Len(ret.f0) :
                      HzLeq(Zero, ret.f0[i]) /\ HzLeq(ret.f0[i], m)
        /\ ret.uv = MaskUsed

\* the spline's own value at position i of the contour
SplineValue(i) ==
    Pow2(CubicSpline(i, Where(MaskUsed, FALSE, 1),
                     Take(Log2Arr(f0), Where(MaskUsed, FALSE, 1))))

\* the spline overshot the largest pitch at an unvoiced frame and was clipped
C2_Witness ==
    /\ last = "interp_f0_spline" /\ SameLength /\ ret.st = "ok"
    /\ Fits(MaskUsed)
    /\ \E i \in 1..Len(f0) :
          /\ MaskUsed[i]
          /\ IsMaxOf(ret.f0[i], f0)
          /\ HzLess(ret.f0[i], SplineValue(i))

\* C3: with every frame unvoiced, interp_f0 and interp_f0_spline return an
\* all-zero contour of the input's length and the all-True mask.
C3_AllUnvoiced ==
    (/\ last \in {"interp_f0", "interp_f0_spline"}
     /\ SameLength /\ Len(f0) >= 1 /\ AllTrue(MaskUsed)) =>
        /\ ret.st = "ok"
        /\ Len(ret.f0) = Len(f0)
        /\ \A i \in 1..Len(ret.f0) : ret.f0[i] = Zero
        /\ ret.uv = MaskUsed

\* an all-unvoiced mask was supplied over a contour that is not all zero
C3_Witness ==
    /\ last \in {"interp_f0", "interp_f0_spline"}
    /\ uv # NoneV /\ SameLength /\ Len(f0) >= 2 /\ AllTrue(MaskUsed)
    /\ \E i \in 1..Len(f0) : f0[i] # Zero
    /\ ret.st = "ok"

\* the padding mask the caller passed, all False when it passed none
PadUsed == IF pitch_padding = NoneV THEN [i \in 1..Len(f0) |-> FALSE]
           ELSE pitch_padding[1]

PositiveWhereUnmasked == \A i \in 1..Len(f0) : ~MaskUsed[i] => f0[i] # Zero

\* C4: denorm_f0(norm_f0(contour, mask), mask, pitch_padding) is the contour
\* at the frames neither mask flags and 0 at the others; interp_f0 and
\* interp_f0_spline return an all-voiced contour unchanged, with an
\* all-False mask.
C4_RoundTrip ==
    /\ (last = "denorm_f0" /\ SameLength /\ PositiveWhereUnmasked) =>
          /\ ret.st = "ok"
          /\ Len(ret.f0) = Len(f0)
          /\ \A i \in 1..Len(f0) :
                ret.f0[i] = IF MaskUsed[i] \/ PadUsed[i] THEN Zero ELSE f0[i]
    /\ (/\ last \in {"interp_f0", "interp_f0_spline"}
        /\ SameLength /\ Len(f0) >= 1
        /\ ~AnyTrue(MaskUsed) /\ PositiveWhereUnmasked) =>
          /\ ret.st = "ok"
          /\ ret.f0 = f0
          /\ ret.uv = [i \in 1..Len(f0) |-> FALSE]

\* a contour with voiced, masked and padded frames went through the round trip
C4_Witness ==
    /\ last = "denorm_f0" /\ uv # NoneV /\ SameLength /\ PositiveWhereUnmasked
    /\ ret.st = "ok"
    /\ \E i, j, l \in 1..Len(f0) :
          /\ ~MaskUsed[i] /\ ~PadUsed[i] /\ f0[i] # I(1)
          /\ MaskUsed[j] /\ f0[j] # Zero
          /\ PadUsed[l] /\ ~MaskUsed[l]

\* C6: norm_f0 on a non-negative contour and any mask of its length returns
\* an array of that length holding -inf where the mask is True and a finite
\* log2 value where it is False.
C6_NormalizedFinite ==
    (last = "norm_f0" /\ SameLength) =>
        /\ ret.st = "ok"
        /\ Len(ret.f0) = Len(f0)
        /\ \A i \in 1..Len(f0) :
              IF MaskUsed[i] THEN ret.f0[i] = NegInf ELSE IsFinite(ret.f0[i])

\* C7: interp_f0 and interp_f0_spline raise, returning nothing, when the
\* contour is empty or the mask's length differs from the contour's.
C7_FailFast ==
    (/\ last \in {"interp_f0", "interp_f0_spline"}
     /\ (Len(f0) = 0 \/ ~SameLength)) =>
        ret.st # "ok"

\* C9: no call changes an array of the caller's (the contour, the mask, the
\* padding mask, the normalised contour handed to denorm_f0), and the contour
\* a call returns is an array of its own.
C9_Pure ==
    [][/\ last' # "set_padding" =>
             (f0' = f0 /\ uv' = uv /\ pitch_padding' = pitch_padding)
       /\ last' # "norm_f0" => lf0' = lf0
       /\ ret'.st = "ok" => ret'.fresh]_vars

\* denorm_f0 zeroed frames of its result under a mask and a padding mask
C9_Witness ==
    /\ last = "denorm_f0" /\ ret.st = "ok"
    /\ uv # NoneV /\ AnyTrue(uv[1])
    /\ pitch_padding # NoneV /\ AnyTrue(pitch_padding[1])
    /\ ret.f0 # lf0[1]

---------------------------------------------------------------------------
(* Properties of get_mel_fn *)

ValidMelArgs ==
    /\ args.n_fft > 0 /\ args.n_fft % 2 = 0
    /\ args.n_mels >= 1
    /\ 0 < args.fmin /\ args.fmin < args.fmax

NonZeroAt(row, k) == row[k] # Zero
ZeroRow(row) == \A k \in 1..Len(row) : ~NonZeroAt(row, k)

\* the nonzero entries of row are next to each other
Contiguous(row) ==
    \A i, j, k \in 1..Len(row) :
        (i < j /\ j < k /\ NonZeroAt(row, i) /\ NonZeroAt(row, k))
            => NonZeroAt(row, j)

\* argmax: the first bin holding the row's largest weight
IsPeak(row, k) ==
    /\ \A j \in 1..Len(row) : XLeq(row[j], row[k])
    /\ \A j \in 1..(k - 1) : XLess(row[j], row[k])
Peak(row) == CHOOSE k \in 1..Len(row) : IsPeak(row, k)

MelShapeAndSupport ==
    /\ ret.st = "ok"
    /\ ret.rows = args.n_mels /\ ret.cols = args.n_fft \div 2 + 1
    /\ Len(ret.w) = ret.rows
    /\ \A i \in 1..Len(ret.w) :
          /\ Len(ret.w[i]) = ret.cols
          /\ \A k \in 1..Len(ret.w[i]) : XLeq(Zero, ret.w[i][k])
          /\ Contiguous(ret.w[i])

\* C5 as claimed: for valid arguments the matrix has shape
\* (n_mels, fft_size/2+1), no negative entry, contiguous nonzero support in
\* each row, and rows in ascending order of peak bin, all-zero rows included.
C5_MelRowsSorted ==
    (last = "get_mel_fn" /\ ValidMelArgs) =>
        /\ MelShapeAndSupport
        /\ \A i, j \in 1..Len(ret.w) :
              i < j => Peak(ret.w[i]) <= Peak(ret.w[j])

\* C5 as amended: the same, with the order of peak bins holding among the
\* rows that have a nonzero entry.
C5_MelNonZeroRowsSorted ==
    (last = "get_mel_fn" /\ ValidMelArgs) =>
        /\ MelShapeAndSupport
        /\ \A i, j \in 1..Len(ret.w) :
              (i < j /\ ~ZeroRow(ret.w[i]) /\ ~ZeroRow(ret.w[j]))
                  => Peak(ret.w[i]) <= Peak(ret.w[j])

\* a valid call gave a band without any FFT bin between two bands with bins
C5_Witness ==
    /\ last = "get_mel_fn" /\ ValidMelArgs /\ ret.st = "ok"
    /\ \E i, j, l \in 1..Len(ret.w) :
          /\ i < j /\ j < l
          /\ ~ZeroRow(ret.w[i]) /\ ZeroRow(ret.w[j]) /\ ~ZeroRow(ret.w[l])
          /\ Peak(ret.w[i]) < Peak(ret.w[l])

\* C8: get_mel_fn raises, returning no matrix, when fft_size or n_mels is
\* not positive or fmin >= fmax.
C8_MelFailFast ==
    (/\ last = "get_mel_fn"
     /\ (args.n_fft <= 0 \/ args.n_mels <= 0 \/ args.fmin >= args.fmax)) =>
        ret.st # "ok"

---------------------------------------------------------------------------
(* Properties of get_n_fft *)

Voiced20 == {args.f0[i] : i \in {j \in 1..Len(args.f0) : args.f0[j] > 20}}

\* m is the least frame above 20 Hz, capped at 1000 Hz
IsF0Min(m) ==
    \E v \in Voiced20 :
        /\ \A u \in Voiced20 : v <= u
        /\ m = IF v > 1000 THEN 1000 ELSE v

\* r is n/d rounded to the nearest integer, halves to the even one
IsRounded(r, n, d) ==
    \/ 2 * Abs(r * d - n) < d
    \/ 2 * Abs(r * d - n) = d /\ r % 2 = 0

\* p is the smallest power of two that is not less than w
IsNextPow2(p, w) == IsPow2(p) /\ p >= w /\ (p = 1 \/ p \div 2 < w)

\* n_fft is the smallest power of two not below the window
\* w = 2 * round(sr * relative_winsize / (2 * f0_min))
NFftFormula ==
    /\ ret.st = "ok"
    /\ IsF0Min(ret.f0_min)
    /\ \E w \in {2 * ((args.sr * args.relative_winsize) \div (2 * ret.f0_min)),
                 2 * ((args.sr * args.relative_winsize) \div (2 * ret.f0_min)) + 2} :
          /\ IsRounded(w \div 2, args.sr * args.relative_winsize, 2 * ret.f0_min)
          /\ IsNextPow2(ret.n_fft, w)

\* C10: get_n_fft drops the frames at or below 20 Hz, takes f0_min as the
\* least remaining frame capped at 1000 Hz, and returns the smallest power of
\* two not below the even-rounded window length; for every input with a frame
\* above 20 Hz that n_fft is a positive power of two.
C10_NFftPowerOfTwo ==
    (last = "get_n_fft" /\ Voiced20 # {}) =>
        /\ NFftFormula
        /\ ret.n_fft > 0 /\ IsPow2(ret.n_fft)

===========================================================================
